---- MODULE Spec2Model ----
(***************************************************************************)
(* Model of the supervisor in entrypoint.go (the second program of the     *)
(* file, lines 686-1151): main, runEventLoop, handleSignal,                *)
(* handleProcessExit, ProcessManager, ServerManager and RateLimiter.       *)
(*                                                                         *)
(* Four specifications share the variables:                                 *)
(*   Spec    the supervisor: main goroutine, the listener goroutine of     *)
(*           ServerManager.Start, the Wait goroutine of runEventLoop, the  *)
(*           Wait goroutine of GracefulShutdown, the child process, the    *)
(*           operating system delivering signals, and a discrete clock;    *)
(*   SpecRL  the rate limiter: concurrent callers of RateLimiter.Allow;    *)
(*   SpecHTTP the health handler: HealthHandler.ServeHTTP answering        *)
(*           requests one after the other (the handlers share nothing but  *)
(*           the rate limiter, whose concurrency is SpecRL's);             *)
(*   SpecCfg loadConfiguration reading the duration settings.              *)
(*                                                                         *)
(* Time.  The clock `now` counts abstract time units.  Steps of the        *)
(* supervisor that do not block take no time: Tick is enabled only when    *)
(* every goroutine is at a blocking point whose wake-up condition does not *)
(* hold yet (a select with no ready case, a Wait on a live child).  The    *)
(* child and the signals are the environment and may act at any time.      *)
(***************************************************************************)
EXTENDS Integers, Sequences, FiniteSets, TLC

\* ---------------------------------------------------------------- bounds
MaxTime == 6            \* the clock stops here
MaxSignals == 3         \* signals the operating system delivers in one run
GracePeriod == 2        \* config.GracePeriod, in time units
ShutdownTimeout == 1    \* config.ShutdownTimeout, in time units
RLLimit == 2            \* rl.limit, the N of NewRateLimiter(N, W)
RLWindow == 2           \* rl.window, the W of NewRateLimiter(N, W), in time units
RLMaxTime == 3          \* the rate limiter's clock stops here
RLMaxCalls == 5         \* calls of Allow made in one run
NumCallers == 2         \* concurrent callers of Allow
MaxRequests == 4        \* requests the health handler answers in one run
MaxEnvLen == 3          \* longest value of an environment variable, in characters

\* ------------------------------------------------------------- constants
SigChCap == 1           \* make(chan os.Signal, 1)
Signals == {"SIGINT", "SIGTERM", "SIGHUP"}
TermSignals == {"SIGINT", "SIGTERM"}
Keys == {"10.0.0.1", "10.0.0.2"}    \* client keys
Callers == 1..NumCallers
RemoteAddrs == {"10.0.0.1:4000", "10.0.0.2:4000"}   \* r.RemoteAddr
Paths == {"/", "/metrics"}                          \* r.URL.Path
DialOutcomes == {"connected", "refused", "timeout"} \* net.Dialer.Dial
EnvChars == {"0", "1", "s", "m"}    \* characters of an environment value

VARIABLES
    pc,          \* position of the main goroutine
    exited,      \* the supervisor process has terminated
    exitCode,    \* its exit code (-1 while running)
    exitBy,      \* the call site that terminated it
    child,       \* "notstarted" | "running" | "exited" (zombie) | "reaped"
    childStatus, \* "none" | "ok" | "err" | "killed"
    srv,         \* "notstarted" | "starting" | "listening" | "closed" | "failed"
    sigCh,       \* the signal channel of main
    sigSent,     \* number of signals delivered so far
    cur,         \* the event being handled: a signal, or "exit"
    done,        \* the exit channel of runEventLoop
    bgWait,      \* Wait goroutine of runEventLoop
    bgResult,
    gsDone,      \* the exit channel of GracefulShutdown
    gsWait,      \* Wait goroutine of GracefulShutdown
    gsResult,
    gsDeadline,  \* time.After(pm.gracePeriod)
    sdDeadline,  \* context.WithTimeout(..., timeout) of Shutdown
    sdErr,       \* result of ServerManager.Shutdown: "nil" | "err" | "deadline"
    now,         \* the clock
    termAt,      \* time at which the first termination signal was dequeued
    termSent,    \* a termination signal has been delivered to the supervisor
    log,         \* history of the operations of the main goroutine
    binExists,   \* os.Stat(config.XrayBin) succeeds
    lnErr,       \* what ListenAndServe returned: "none" | "ErrServerClosed" | "other"
    gsRet,       \* what GracefulShutdown returned: "none" | "nil" | "err" | "done"
    sigChild,    \* the child's state when pm.Signal was last called ("none": never)
    \* health handler
    httpCalls,   \* requests answered so far
    hreq,        \* the last request: remote address, three headers, path
    hdial,       \* outcome of the probe's Dial for it ("none": no probe ran)
    hallow,      \* what rateLimiter.Allow returned for it
    hnow,        \* the time.Now() of that Allow
    hresp,       \* the response written for it: status, headers, body
    \* configuration
    cfgpc,       \* duration settings loadConfiguration has read so far
    cfgKey,      \* the setting read last
    cfgEnv,      \* the environment variable read for it: set or not, value
    config,      \* the Configuration: the three durations, in milliseconds
    \* ---- rate limiter
    requests,    \* rl.requests: key -> sequence of timestamps
    mutex,       \* rl.mutex: 0 when free, else the caller holding it
    rlpc,        \* position of each caller inside Allow
    rlKey,       \* the ip argument of each caller's call
    rlNow,       \* the local `now` of each caller's call
    rlCalls,     \* calls of Allow started so far
    clock,       \* time.Now()
    admitted,    \* history: key -> time -> calls that returned true
    completed    \* history: key -> time -> calls that returned

supVars == <<pc, exited, exitCode, exitBy, child, childStatus, srv, sigCh,
             sigSent, cur, done, bgWait, bgResult, gsDone, gsWait, gsResult,
             gsDeadline, sdDeadline, sdErr, now, termAt, termSent, log,
             binExists, lnErr, gsRet, sigChild>>

rlVars == <<requests, mutex, rlpc, rlKey, rlNow, rlCalls, clock, admitted,
            completed>>

httpVars == <<httpCalls, hreq, hdial, hallow, hnow, hresp>>

cfgVars == <<cfgpc, cfgKey, cfgEnv, config>>

vars == <<supVars, rlVars, httpVars, cfgVars>>

\* ----------------------------------------------------------------- Init
SupInit ==
    /\ pc = "validate"
    /\ exited = FALSE
    /\ exitCode = -1
    /\ exitBy = "none"
    /\ child = "notstarted"
    /\ childStatus = "none"
    /\ srv = "notstarted"
    /\ sigCh = <<>>
    /\ sigSent = 0
    /\ cur = "none"
    /\ done = <<>>
    /\ bgWait = "none"
    /\ bgResult = "none"
    /\ gsDone = <<>>
    /\ gsWait = "none"
    /\ gsResult = "none"
    /\ gsDeadline = -1
    /\ sdDeadline = -1
    /\ sdErr = "none"
    /\ now = 0
    /\ termAt = -1
    /\ termSent = FALSE
    /\ log = <<>>
    /\ binExists \in BOOLEAN
    /\ lnErr = "none"
    /\ gsRet = "none"
    /\ sigChild = "none"

\* NewRateLimiter: an empty table
RLInit ==
    /\ requests = [k \in {} |-> <<>>]
    /\ mutex = 0
    /\ rlpc = [w \in Callers |-> "idle"]
    /\ rlKey = [w \in Callers |-> "none"]
    /\ rlNow = [w \in Callers |-> 0]
    /\ rlCalls = 0
    /\ clock = 0
    /\ admitted = [k \in Keys |-> [t \in 0..RLMaxTime |-> 0]]
    /\ completed = [k \in Keys |-> [t \in 0..RLMaxTime |-> 0]]

\* NewHealthHandler: no request answered yet
NoRequest == [remote |-> "", xff |-> "", xreal |-> "", cf |-> "", path |-> ""]
NoResponse == [status |-> 0, hdrs |-> <<>>, text |-> "", json |-> <<>>]

HTTPInit ==
    /\ httpCalls = 0
    /\ hreq = NoRequest
    /\ hdial = "none"
    /\ hallow = FALSE
    /\ hnow = 0
    /\ hresp = NoResponse

\* loadConfiguration has not run: the zero Configuration
CfgInit ==
    /\ cfgpc = 0
    /\ cfgKey = "none"
    /\ cfgEnv = [set |-> FALSE, val |-> <<>>]
    /\ config = [ConnectTimeout |-> 0, GracePeriod |-> 0, ShutdownTimeout |-> 0]

Init == SupInit /\ RLInit /\ HTTPInit /\ CfgInit

\* the start of the specifications in which main's prerequisites play no
\* part
InitServing == Init /\ binExists

\* ------------------------------------------------------- frame groups
exitV  == <<exited, exitCode, exitBy>>
childV == <<child, childStatus>>
bgV    == <<done, bgWait, bgResult>>
gsV    == <<gsDone, gsWait, gsResult, gsDeadline>>
sdV    == <<sdDeadline, sdErr>>
sigV   == <<sigCh, sigSent, termSent>>
restV  == <<binExists, sigChild, rlVars, httpVars, cfgVars>>
rlRest == <<supVars, httpVars, cfgVars>>
httpRest == <<supVars, mutex, rlpc, rlKey, rlNow, rlCalls, cfgVars>>
cfgRest == <<supVars, rlVars, httpVars>>

\* os.Exit / log.Fatalf: the process ends, nothing runs afterwards.
\* `entries` are the operations the caller did before exiting.
osExit(code, by, entries) ==
    /\ exited' = TRUE
    /\ exitCode' = code
    /\ exitBy' = by
    /\ log' = log \o entries \o <<"exit">>

\* error value of cmd.Wait for a child that ended with the given status
WaitErr(status) == IF status = "ok" THEN "nil" ELSE "err"

\* ------------------------------------------------------------------ main
\* mutant: the result of validatePrerequisites is ignored
main_validatePrerequisites_ignored ==
    /\ ~exited /\ pc = "validate"
    /\ pc' = "startServer"
    /\ UNCHANGED <<exitV, log>>
    /\ UNCHANGED <<childV, srv, sigV, cur, bgV, gsV, sdV, now, termAt>>
    /\ UNCHANGED <<lnErr, gsRet, restV>>

\* main: validatePrerequisites; a missing binary is fatal (log.Fatalf).
main_validatePrerequisites ==
    /\ ~exited /\ pc = "validate"
    /\ IF binExists
       THEN /\ pc' = "startServer"
            /\ UNCHANGED <<exitV, log>>
       ELSE /\ osExit(1, "validatePrerequisites", <<>>)
            /\ UNCHANGED pc
    /\ UNCHANGED <<childV, srv, sigV, cur, bgV, gsV, sdV, now, termAt>>
    /\ UNCHANGED <<lnErr, gsRet, restV>>

\* ServerManager.Start: spawns the listener goroutine and returns.
ServerManager_Start ==
    /\ ~exited /\ pc = "startServer"
    /\ srv' = "starting"
    /\ pc' = "startProcess"
    /\ UNCHANGED <<exitV, childV, sigV, cur, bgV, gsV, sdV, now, termAt, log>>
    /\ UNCHANGED <<lnErr, gsRet, restV>>

\* mutant: main goes on when the launch failed
ProcessManager_Start_unchecked ==
    /\ ~exited /\ pc = "startProcess"
    /\ \E launched \in BOOLEAN :
         child' = IF launched THEN "running" ELSE child
    /\ pc' = "notify"
    /\ UNCHANGED <<exitV, log>>
    /\ UNCHANGED <<childStatus, srv, sigV, cur, bgV, gsV, sdV, now, termAt>>
    /\ UNCHANGED <<lnErr, gsRet, restV>>

\* processManager.Start in main: a failed launch is fatal (log.Fatalf).
ProcessManager_Start ==
    /\ ~exited /\ pc = "startProcess"
    /\ \E launched \in BOOLEAN :
         IF launched
         THEN /\ child' = "running"
              /\ pc' = "notify"
              /\ UNCHANGED <<exitV, log>>
         ELSE /\ osExit(1, "processManagerStart", <<>>)
              /\ UNCHANGED <<child, pc>>
    /\ UNCHANGED <<childStatus, srv, sigV, cur, bgV, gsV, sdV, now, termAt>>
    /\ UNCHANGED <<lnErr, gsRet, restV>>

\* signal.Notify(sigCh, SIGINT, SIGTERM, SIGHUP)
main_signalNotify ==
    /\ ~exited /\ pc = "notify"
    /\ pc' = "spawnWait"
    /\ UNCHANGED <<exitV, childV, srv, sigV, cur, bgV, gsV, sdV, now, termAt, log>>
    /\ UNCHANGED <<lnErr, gsRet, restV>>

\* Whether signal.Notify has been called: before it the Go runtime's
\* default disposition applies.
Notified == pc \notin {"validate", "startServer", "startProcess", "notify"}

\* runEventLoop: done := make(chan error, 1); go func() { done <- pm.Wait() }()
runEventLoop_spawn ==
    /\ ~exited /\ pc = "spawnWait"
    /\ bgWait' = "blocked"
    /\ pc' = "select"
    /\ UNCHANGED <<exitV, childV, srv, sigV, cur, done, bgResult, gsV, sdV,
                   now, termAt, log>>
    /\ UNCHANGED <<lnErr, gsRet, restV>>

\* mutant: handleSignal without the SIGHUP case
runEventLoop_sig_nohup ==
    /\ ~exited /\ pc = "select" /\ sigCh # <<>>
    /\ sigCh' = Tail(sigCh)
    /\ log' = Append(log, "deq_term")
    /\ pc' = "hs_forward"
    /\ cur' = Head(sigCh)
    /\ termAt' = IF termAt = -1 THEN now ELSE termAt
    /\ UNCHANGED <<exitV, childV, srv, sigSent, termSent, bgV, gsV, sdV, now>>
    /\ UNCHANGED <<lnErr, gsRet, restV>>

\* runEventLoop: case sig := <-sigCh: handleSignal(sig, ...).  SIGHUP is
\* handled whole (a log line and return); for SIGINT/SIGTERM the handler
\* goes on to pm.Signal.
runEventLoop_sig ==
    /\ ~exited /\ pc = "select" /\ sigCh # <<>>
    /\ sigCh' = Tail(sigCh)
    /\ IF Head(sigCh) = "SIGHUP"
       THEN /\ log' = Append(log, "deq_hup")
            /\ UNCHANGED <<pc, cur, termAt>>
       ELSE /\ log' = Append(log, "deq_term")
            /\ pc' = "hs_forward"
            /\ cur' = Head(sigCh)
            /\ termAt' = IF termAt = -1 THEN now ELSE termAt
    /\ UNCHANGED <<exitV, childV, srv, sigSent, termSent, bgV, gsV, sdV, now>>
    /\ UNCHANGED <<lnErr, gsRet, restV>>

\* ProcessManager.Signal -> os.Process.Signal: fails once a Wait has
\* observed the exit (the process is marked done), succeeds on a running
\* child and on an exited child that has not been waited for yet.
ProcessManager_SignalFails == child = "reaped"

\* mutant: the error of pm.Signal is ignored and the shutdown goes on
handleSignal_forward_ignoresError ==
    /\ ~exited /\ pc = "hs_forward"
    /\ sigChild' = child
    /\ log' = Append(log, IF ProcessManager_SignalFails THEN "fwd_fail" ELSE "fwd_ok")
    /\ pc' = "gs_start"
    /\ UNCHANGED <<exitV, childV, srv, sigV, cur, bgV, gsV, sdV, now, termAt>>
    /\ UNCHANGED <<lnErr, gsRet, binExists, rlVars, httpVars, cfgVars>>

\* handleSignal, lines 1122-1126: forward the signal; on failure log and
\* return to the event loop.
handleSignal_forward ==
    /\ ~exited /\ pc = "hs_forward"
    /\ sigChild' = child
    /\ IF ProcessManager_SignalFails
       THEN /\ log' = Append(log, "fwd_fail")
            /\ pc' = "select"
       ELSE /\ log' = Append(log, "fwd_ok")
            /\ pc' = "gs_start"
    /\ UNCHANGED <<exitV, childV, srv, sigV, cur, bgV, gsV, sdV, now, termAt>>
    /\ UNCHANGED <<lnErr, gsRet, binExists, rlVars, httpVars, cfgVars>>

\* GracefulShutdown, lines 944-950: spawn the second Wait goroutine and
\* arm time.After(pm.gracePeriod).
GracefulShutdown_start ==
    /\ ~exited /\ pc = "gs_start"
    /\ gsWait' = "blocked"
    /\ gsDeadline' = now + GracePeriod
    /\ pc' = "gs_select"
    /\ UNCHANGED <<exitV, childV, srv, sigV, cur, bgV, gsDone, gsResult, sdV,
                   now, termAt, log>>
    /\ UNCHANGED <<lnErr, gsRet, restV>>

\* ProcessManager.Kill -> os.Process.Kill: SIGKILL ends a running child;
\* an exited child is left as it is.
ProcessManager_Kill ==
    /\ child' = IF child = "running" THEN "exited" ELSE child
    /\ childStatus' = IF child = "running" THEN "killed" ELSE childStatus

\* What ProcessManager.Kill returns: os.Process.Kill fails with
\* os.ErrProcessDone ("done") once a Wait has reaped the child, and with
\* nothing else; the exit status recorded by Wait is not part of it.
ProcessManager_KillResult == IF child = "reaped" THEN "done" ELSE "nil"

\* GracefulShutdown's time.After(pm.gracePeriod): the timer is armed by
\* GracefulShutdown_start and nothing stops it, so it is pending until it
\* fires at the deadline
GraceTimerPending == gsDeadline # -1 /\ now < gsDeadline

\* mutant: the timer case returns without killing the child
GracefulShutdown_timer_nokill ==
    /\ ~exited /\ pc = "gs_select"
    /\ now >= gsDeadline
    /\ gsRet' = "nil"
    /\ log' = log \o <<"kill", "gs_ret">>
    /\ pc' = "hs_shutdown"
    /\ UNCHANGED <<exitV, childV, srv, sigV, cur, bgV, gsV, sdV, now, termAt>>
    /\ UNCHANGED <<lnErr, restV>>

\* GracefulShutdown, case <-time.After(pm.gracePeriod): return pm.Kill()
GracefulShutdown_timer ==
    /\ ~exited /\ pc = "gs_select"
    /\ now >= gsDeadline
    /\ ProcessManager_Kill
    /\ gsRet' = ProcessManager_KillResult
    /\ log' = log \o <<"kill", "gs_ret">>
    /\ pc' = "hs_shutdown"
    /\ UNCHANGED <<exitV, srv, sigV, cur, bgV, gsV, sdV, now, termAt>>
    /\ UNCHANGED <<lnErr, restV>>

\* mutant: the child is killed after its exit was received as well
GracefulShutdown_done_kills ==
    /\ ~exited /\ pc = "gs_select"
    /\ gsDone # <<>>
    /\ gsDone' = Tail(gsDone)
    /\ gsRet' = Head(gsDone)
    /\ ProcessManager_Kill
    /\ log' = log \o <<"kill", "gs_ret">>
    /\ pc' = "hs_shutdown"
    /\ UNCHANGED <<exitV, srv, sigV, cur, bgV, gsWait, gsResult,
                   gsDeadline, sdV, now, termAt>>
    /\ UNCHANGED <<lnErr, restV>>

\* GracefulShutdown, case err := <-done: return err
GracefulShutdown_done ==
    /\ ~exited /\ pc = "gs_select"
    /\ gsDone # <<>>
    /\ gsDone' = Tail(gsDone)
    /\ gsRet' = Head(gsDone)
    /\ log' = Append(log, "gs_ret")
    /\ pc' = "hs_shutdown"
    /\ UNCHANGED <<exitV, childV, srv, sigV, cur, bgV, gsWait, gsResult,
                   gsDeadline, sdV, now, termAt>>
    /\ UNCHANGED <<lnErr, restV>>

\* mutant: Shutdown is given a longer timeout than config.ShutdownTimeout
ServerManager_Shutdown_call_longer(from, to) ==
    /\ ~exited /\ pc = from
    /\ srv' = IF srv \in {"starting", "listening"} THEN "closed" ELSE srv
    /\ sdDeadline' = now + ShutdownTimeout + GracePeriod
    /\ log' = Append(log, "sd_begin")
    /\ pc' = to
    /\ UNCHANGED <<exitV, childV, sigV, cur, bgV, gsV, sdErr, now, termAt>>
    /\ UNCHANGED <<lnErr, gsRet, restV>>

\* ServerManager.Shutdown, call: http.Server.Shutdown closes the listener
\* at once and then waits for the connections, bounded by the context.
ServerManager_Shutdown_call(from, to) ==
    /\ ~exited /\ pc = from
    /\ srv' = IF srv \in {"starting", "listening"} THEN "closed" ELSE srv
    /\ sdDeadline' = now + ShutdownTimeout
    /\ log' = Append(log, "sd_begin")
    /\ pc' = to
    /\ UNCHANGED <<exitV, childV, sigV, cur, bgV, gsV, sdErr, now, termAt>>
    /\ UNCHANGED <<lnErr, gsRet, restV>>

\* ServerManager.Shutdown, return before the deadline: nil once the
\* connections are idle, or the error of closing the listener.
ServerManager_Shutdown_return(from, to) ==
    /\ ~exited /\ pc = from
    /\ \E err \in {"nil", "err"} : sdErr' = err
    /\ log' = Append(log, "sd_end")
    /\ pc' = to
    /\ UNCHANGED <<exitV, childV, srv, sigV, cur, bgV, gsV, sdDeadline, now,
                   termAt>>
    /\ UNCHANGED <<lnErr, gsRet, restV>>

\* ServerManager.Shutdown, return at the deadline: the context's error.
ServerManager_Shutdown_timeout(from, to) ==
    /\ ~exited /\ pc = from
    /\ now >= sdDeadline
    /\ sdErr' = "deadline"
    /\ log' = Append(log, "sd_end")
    /\ pc' = to
    /\ UNCHANGED <<exitV, childV, srv, sigV, cur, bgV, gsV, sdDeadline, now,
                   termAt>>
    /\ UNCHANGED <<lnErr, gsRet, restV>>

\* handleSignal, lines 1132-1135
handleSignal_shutdown == ServerManager_Shutdown_call("hs_shutdown", "hs_sd_wait")

handleSignal_shutdownReturn ==
    ServerManager_Shutdown_return("hs_sd_wait", "hs_exit")

handleSignal_shutdownTimeout ==
    ServerManager_Shutdown_timeout("hs_sd_wait", "hs_exit")

\* mutant: handleSignal returns to the event loop instead of exiting
handleSignal_exit_returns ==
    /\ ~exited /\ pc = "hs_exit"
    /\ pc' = "select"
    /\ UNCHANGED <<exitV, log, childV, srv, sigV, cur, bgV, gsV, sdV, now, termAt>>
    /\ UNCHANGED <<lnErr, gsRet, restV>>

\* handleSignal, line 1135: os.Exit(0)
handleSignal_exit ==
    /\ ~exited /\ pc = "hs_exit"
    /\ osExit(0, "handleSignal", <<>>)
    /\ UNCHANGED <<pc, childV, srv, sigV, cur, bgV, gsV, sdV, now, termAt>>
    /\ UNCHANGED <<lnErr, gsRet, restV>>

\* mutant: after a clean exit the handler signals the child again
runEventLoop_done_resignal ==
    /\ ~exited /\ pc = "select" /\ done # <<>>
    /\ done' = Tail(done)
    /\ IF Head(done) # "nil"
       THEN /\ osExit(1, "handleProcessExit", <<"deq_exit_err">>)
            /\ UNCHANGED <<pc, cur>>
       ELSE /\ log' = Append(log, "deq_exit_nil")
            /\ pc' = "hs_forward"
            /\ cur' = "SIGTERM"
            /\ UNCHANGED exitV
    /\ UNCHANGED <<childV, srv, sigV, bgWait, bgResult, gsV, sdV, now, termAt>>
    /\ UNCHANGED <<lnErr, gsRet, restV>>

\* runEventLoop: case err := <-done: handleProcessExit(err, ...).  With an
\* error the handler exits at once with code 1 (lines 1140-1143).
runEventLoop_done ==
    /\ ~exited /\ pc = "select" /\ done # <<>>
    /\ done' = Tail(done)
    /\ IF Head(done) # "nil"
       THEN /\ osExit(1, "handleProcessExit", <<"deq_exit_err">>)
            /\ UNCHANGED <<pc, cur>>
       ELSE /\ log' = Append(log, "deq_exit_nil")
            /\ pc' = "hpe_shutdown"
            /\ cur' = "exit"
            /\ UNCHANGED exitV
    /\ UNCHANGED <<childV, srv, sigV, bgWait, bgResult, gsV, sdV, now, termAt>>
    /\ UNCHANGED <<lnErr, gsRet, restV>>

\* mutant: handleProcessExit exits without shutting the server down
handleProcessExit_shutdown_skipped ==
    /\ ~exited /\ pc = "hpe_shutdown"
    /\ pc' = "hpe_exit"
    /\ UNCHANGED <<exitV, log, childV, srv, sigV, cur, bgV, gsV, sdV, now, termAt>>
    /\ UNCHANGED <<lnErr, gsRet, restV>>

\* handleProcessExit, lines 1145-1149
handleProcessExit_shutdown ==
    ServerManager_Shutdown_call("hpe_shutdown", "hpe_sd_wait")

handleProcessExit_shutdownReturn ==
    ServerManager_Shutdown_return("hpe_sd_wait", "hpe_exit")

handleProcessExit_shutdownTimeout ==
    ServerManager_Shutdown_timeout("hpe_sd_wait", "hpe_exit")

handleProcessExit_exit ==
    /\ ~exited /\ pc = "hpe_exit"
    /\ osExit(0, "handleProcessExit", <<>>)
    /\ UNCHANGED <<pc, childV, srv, sigV, cur, bgV, gsV, sdV, now, termAt>>
    /\ UNCHANGED <<lnErr, gsRet, restV>>

\* ------------------------------------------------------------ goroutines
\* ProcessManager.Wait -> cmd.Wait: returns once the child has exited.  The
\* caller that reaps the child gets its status; a Wait that finds it reaped
\* by the other caller gets an error (two Waits run at once when
\* GracefulShutdown starts its own while runEventLoop's is still blocked).
ProcessManager_WaitReady == child \in {"exited", "reaped"}

ProcessManager_WaitResult ==
    IF child = "exited" THEN WaitErr(childStatus) ELSE "err"

bgWait_return ==
    /\ ~exited /\ bgWait = "blocked" /\ ProcessManager_WaitReady
    /\ bgResult' = ProcessManager_WaitResult
    /\ child' = "reaped"
    /\ bgWait' = "send"
    /\ UNCHANGED <<pc, exitV, childStatus, srv, sigV, cur, done, gsV, sdV, now,
                   termAt, log>>
    /\ UNCHANGED <<lnErr, gsRet, restV>>

bgWait_send ==
    /\ ~exited /\ bgWait = "send"
    /\ done' = Append(done, bgResult)
    /\ bgWait' = "finished"
    /\ UNCHANGED <<pc, exitV, childV, srv, sigV, cur, bgResult, gsV, sdV, now,
                   termAt, log>>
    /\ UNCHANGED <<lnErr, gsRet, restV>>

gsWait_return ==
    /\ ~exited /\ gsWait = "blocked" /\ ProcessManager_WaitReady
    /\ gsResult' = ProcessManager_WaitResult
    /\ child' = "reaped"
    /\ gsWait' = "send"
    /\ UNCHANGED <<pc, exitV, childStatus, srv, sigV, cur, bgV, gsDone,
                   gsDeadline, sdV, now, termAt, log>>
    /\ UNCHANGED <<lnErr, gsRet, restV>>

gsWait_send ==
    /\ ~exited /\ gsWait = "send"
    /\ gsDone' = Append(gsDone, gsResult)
    /\ gsWait' = "finished"
    /\ UNCHANGED <<pc, exitV, childV, srv, sigV, cur, bgV, gsResult,
                   gsDeadline, sdV, now, termAt, log>>
    /\ UNCHANGED <<lnErr, gsRet, restV>>

\* ServerManager.Start's goroutine: ListenAndServe binds and serves ...
listener_bind ==
    /\ ~exited /\ srv = "starting"
    /\ srv' = "listening"
    /\ UNCHANGED <<pc, exitV, childV, sigV, cur, bgV, gsV, sdV, now, termAt, log>>
    /\ UNCHANGED <<lnErr, gsRet, restV>>

\* mutant: every error of ListenAndServe is fatal
ListenerIsFatal_any(err) == err # "none"

\* The listener goroutine's test of what ListenAndServe returned:
\* err != nil && err != http.ErrServerClosed
ListenerIsFatal(err) == err # "none" /\ err # "ErrServerClosed"

\* ... ListenAndServe fails to bind or to serve: the error is log.Fatalf.
listener_fatal ==
    /\ ~exited /\ srv \in {"starting", "listening"}
    /\ srv' = "failed"
    /\ lnErr' = "other"
    /\ IF ListenerIsFatal(lnErr')
       THEN osExit(1, "listenerFatal", <<>>)
       ELSE UNCHANGED <<exitV, log>>
    /\ UNCHANGED <<pc, childV, sigV, cur, bgV, gsV, sdV, now, termAt>>
    /\ UNCHANGED <<gsRet, restV>>

\* ... after ServerManager.Shutdown, ListenAndServe returns
\* http.ErrServerClosed and the goroutine ends.
listener_closed ==
    /\ ~exited /\ srv = "closed" /\ lnErr = "none"
    /\ lnErr' = "ErrServerClosed"
    /\ IF ListenerIsFatal(lnErr')
       THEN osExit(1, "listenerFatal", <<>>)
       ELSE UNCHANGED <<exitV, log>>
    /\ UNCHANGED <<pc, childV, srv, sigV, cur, bgV, gsV, sdV, now, termAt>>
    /\ UNCHANGED <<gsRet, restV>>

\* ----------------------------------------------------------- environment
\* The child ends by itself, cleanly or with an error.
child_exit ==
    /\ ~exited /\ child = "running"
    /\ \E st \in {"ok", "err"} : childStatus' = st
    /\ child' = "exited"
    /\ UNCHANGED <<pc, exitV, srv, sigV, cur, bgV, gsV, sdV, now, termAt, log>>
    /\ UNCHANGED <<lnErr, gsRet, restV>>

\* The operating system delivers a signal to the supervisor.  Before
\* signal.Notify, SIGHUP, SIGINT and SIGTERM end a Go program (exit code 2
\* stands for the death by signal).  After it
\* the os/signal package does a non-blocking send: the signal is dropped
\* when the channel is full.
os_signal ==
    /\ ~exited /\ sigSent < MaxSignals
    /\ sigSent' = sigSent + 1
    /\ \E s \in Signals :
         /\ termSent' = (termSent \/ s \in TermSignals)
         /\ IF ~Notified
            THEN /\ osExit(2, "signalDefault", <<>>)
                 /\ UNCHANGED sigCh
            ELSE /\ sigCh' = IF Len(sigCh) < SigChCap
                             THEN Append(sigCh, s) ELSE sigCh
                 /\ UNCHANGED <<exitV, log>>
    /\ UNCHANGED <<pc, childV, srv, cur, bgV, gsV, sdV, now, termAt>>
    /\ UNCHANGED <<lnErr, gsRet, restV>>

\* The steps of the supervisor that happen as soon as they can: every step
\* of the main goroutine that is not a wait, a select with a ready case, an
\* expired timer, a Wait whose child has exited, a channel send, the bind.
Urgent ==
    \/ main_validatePrerequisites
    \/ ServerManager_Start
    \/ ProcessManager_Start
    \/ main_signalNotify
    \/ runEventLoop_spawn
    \/ runEventLoop_sig
    \/ handleSignal_forward
    \/ GracefulShutdown_start
    \/ GracefulShutdown_timer
    \/ GracefulShutdown_done
    \/ handleSignal_shutdown
    \/ handleSignal_shutdownTimeout
    \/ handleSignal_exit
    \/ runEventLoop_done
    \/ handleProcessExit_shutdown
    \/ handleProcessExit_shutdownTimeout
    \/ handleProcessExit_exit
    \/ bgWait_return
    \/ bgWait_send
    \/ gsWait_return
    \/ gsWait_send
    \/ listener_bind
    \/ listener_closed

\* Time advances only when no urgent step is enabled.
Tick ==
    /\ ~exited /\ now < MaxTime
    /\ ~ENABLED Urgent
    /\ now' = now + 1
    /\ UNCHANGED <<pc, exitV, childV, srv, sigV, cur, bgV, gsV, sdV, termAt, log>>
    /\ UNCHANGED <<lnErr, gsRet, restV>>

Next ==
    \/ main_validatePrerequisites
    \/ ServerManager_Start
    \/ ProcessManager_Start
    \/ main_signalNotify
    \/ runEventLoop_spawn
    \/ runEventLoop_sig
    \/ handleSignal_forward
    \/ GracefulShutdown_start
    \/ GracefulShutdown_timer
    \/ GracefulShutdown_done
    \/ handleSignal_shutdown
    \/ handleSignal_shutdownReturn
    \/ handleSignal_shutdownTimeout
    \/ handleSignal_exit
    \/ runEventLoop_done
    \/ handleProcessExit_shutdown
    \/ handleProcessExit_shutdownReturn
    \/ handleProcessExit_shutdownTimeout
    \/ handleProcessExit_exit
    \/ bgWait_return
    \/ bgWait_send
    \/ gsWait_return
    \/ gsWait_send
    \/ listener_bind
    \/ listener_closed
    \/ listener_fatal
    \/ child_exit
    \/ os_signal
    \/ Tick

Spec == Init /\ [][Next]_vars

\* ---------------------------------------------------------- rate limiter
\* len(rl.requests[ip]): a missing key reads as the nil slice
Requests(k) == IF k \in DOMAIN requests THEN requests[k] ELSE <<>>

\* rl.requests[ip] = v
RequestsSet(k, v) ==
    requests' = [x \in DOMAIN requests \cup {k} |-> IF x = k THEN v ELSE requests[x]]

\* reqTime.After(windowStart)
After(t, u) == t > u

\* mutant: nothing is pruned
Pruned_nothing(seq, t) == seq

\* lines 830-837: the timestamps of seq that are after t - window
Pruned(seq, t) == SelectSeq(seq, LAMBDA u : After(u, t - RLWindow))

\* mutant: the limit test lets one more request through
LimitExceeded_strict(n) == n > RLLimit

\* line 841: len(rl.requests[ip]) >= rl.limit
LimitExceeded(n) == n >= RLLimit

\* mutant: Allow runs without taking the mutex
MutexFree_unlocked == TRUE

\* rl.mutex.Lock(): blocks while another caller holds the mutex
MutexFree == mutex = 0

\* a handler goroutine calls rl.Allow(ip).  The goroutines are
\* interchangeable: the idle one with the smallest number takes the call.
Allow_call(w) ==
    /\ rlpc[w] = "idle" /\ rlCalls < RLMaxCalls
    /\ \A v \in Callers : v < w => rlpc[v] # "idle"
    /\ \E k \in Keys : rlKey' = [rlKey EXCEPT ![w] = k]
    /\ rlCalls' = rlCalls + 1
    /\ rlpc' = [rlpc EXCEPT ![w] = "lock"]
    /\ UNCHANGED <<requests, mutex, rlNow, clock, admitted, completed>>
    /\ UNCHANGED rlRest

\* mutant: the pruning sweeps the whole table
Allow_clean_sweep(w) ==
    /\ rlpc[w] = "lock"
    /\ MutexFree
    /\ mutex' = w
    /\ rlNow' = [rlNow EXCEPT ![w] = clock]
    /\ requests' = [k \in DOMAIN requests |-> Pruned(requests[k], clock)]
    /\ rlpc' = [rlpc EXCEPT ![w] = "check"]
    /\ UNCHANGED <<rlKey, rlCalls, clock, admitted, completed>>
    /\ UNCHANGED rlRest

\* lines 823-838: rl.mutex.Lock(); now := time.Now(); drop the timestamps
\* that are not after now - window (only when the key exists)
Allow_clean(w) ==
    /\ rlpc[w] = "lock"
    /\ MutexFree
    /\ mutex' = w
    /\ rlNow' = [rlNow EXCEPT ![w] = clock]
    /\ IF rlKey[w] \in DOMAIN requests
       THEN RequestsSet(rlKey[w], Pruned(requests[rlKey[w]], clock))
       ELSE UNCHANGED requests
    /\ rlpc' = [rlpc EXCEPT ![w] = "check"]
    /\ UNCHANGED <<rlKey, rlCalls, clock, admitted, completed>>
    /\ UNCHANGED rlRest

\* the deferred rl.mutex.Unlock() and the history of the returned call
Allow_return(w, ok) ==
    /\ mutex' = 0
    /\ rlpc' = [rlpc EXCEPT ![w] = "idle"]
    /\ completed' = [completed EXCEPT ![rlKey[w]][rlNow[w]] = @ + 1]
    /\ admitted' = IF ok THEN [admitted EXCEPT ![rlKey[w]][rlNow[w]] = @ + 1]
                   ELSE admitted

\* mutant: a rejected call is recorded as well
Allow_check_records(w) ==
    /\ rlpc[w] = "check"
    /\ IF LimitExceeded(Len(Requests(rlKey[w])))
       THEN /\ Allow_return(w, FALSE)
            /\ RequestsSet(rlKey[w], Append(Requests(rlKey[w]), rlNow[w]))
       ELSE /\ rlpc' = [rlpc EXCEPT ![w] = "append"]
            /\ UNCHANGED <<requests, mutex, admitted, completed>>
    /\ UNCHANGED <<rlKey, rlNow, rlCalls, clock>>
    /\ UNCHANGED rlRest

\* lines 841-843: if len(rl.requests[ip]) >= rl.limit { return false }
Allow_check(w) ==
    /\ rlpc[w] = "check"
    /\ IF LimitExceeded(Len(Requests(rlKey[w])))
       THEN /\ Allow_return(w, FALSE)
       ELSE /\ rlpc' = [rlpc EXCEPT ![w] = "append"]
            /\ UNCHANGED <<mutex, admitted, completed>>
    /\ UNCHANGED <<requests, rlKey, rlNow, rlCalls, clock>>
    /\ UNCHANGED rlRest

\* lines 846-847: rl.requests[ip] = append(rl.requests[ip], now); return true
Allow_append(w) ==
    /\ rlpc[w] = "append"
    /\ RequestsSet(rlKey[w], Append(Requests(rlKey[w]), rlNow[w]))
    /\ Allow_return(w, TRUE)
    /\ UNCHANGED <<rlKey, rlNow, rlCalls, clock>>
    /\ UNCHANGED rlRest

\* time passes
RLTick ==
    /\ clock < RLMaxTime
    /\ clock' = clock + 1
    /\ UNCHANGED <<requests, mutex, rlpc, rlKey, rlNow, rlCalls, admitted,
                   completed>>
    /\ UNCHANGED rlRest

RLNext ==
    \/ \E w \in Callers : Allow_call(w)
    \/ \E w \in Callers : Allow_clean(w)
    \/ \E w \in Callers : Allow_check(w)
    \/ \E w \in Callers : Allow_append(w)
    \/ RLTick

SpecRL == InitServing /\ [][RLNext]_vars

\* --------------------------------------------------------- configuration
\* the values of an environment variable: strings of at most MaxEnvLen
\* characters
EnvStrings == UNION {[1..n -> EnvChars] : n \in 0..MaxEnvLen}

\* an environment variable: unset, or set to a string (possibly empty)
EnvVars == {[set |-> FALSE, val |-> <<>>]} \cup [set : {TRUE}, val : EnvStrings]

\* os.Getenv: the value, "" when the variable is unset
Getenv(e) == IF e.set THEN e.val ELSE <<>>

IsDigit(c) == c \in {"0", "1"}

\* time.ParseDuration, leadingInt: how many digits s begins with ...
RECURSIVE LeadLen(_)
LeadLen(s) == IF s = <<>> \/ ~IsDigit(Head(s)) THEN 0 ELSE 1 + LeadLen(Tail(s))

\* ... and the decimal number the first n characters of s spell
RECURSIVE LeadVal(_, _)
LeadVal(s, n) ==
    IF n = 0 THEN 0
    ELSE LeadVal(s, n - 1) * 10 + (IF s[n] = "1" THEN 1 ELSE 0)

\* time.ParseDuration: the unit runs up to the next digit
RECURSIVE UnitLen(_)
UnitLen(s) == IF s = <<>> \/ IsDigit(Head(s)) THEN 0 ELSE 1 + UnitLen(Tail(s))

\* time.ParseDuration's unitMap, in milliseconds (0: no such unit)
UnitMap(u) ==
    CASE u = <<"m", "s">> -> 1
      [] u = <<"s">> -> 1000
      [] u = <<"m">> -> 60000
      [] OTHER -> 0

ParseError == [ok |-> FALSE, d |-> 0]

\* time.ParseDuration's loop: a number, then a unit, until the string ends
RECURSIVE ParseGroups(_, _)
ParseGroups(s, d) ==
    IF s = <<>> THEN [ok |-> TRUE, d |-> d]
    ELSE IF ~IsDigit(Head(s)) THEN ParseError
    ELSE LET n == LeadLen(s)
             rest == SubSeq(s, n + 1, Len(s))
             i == UnitLen(rest)
             u == SubSeq(rest, 1, i)
         IN  IF i = 0 THEN ParseError
             ELSE IF UnitMap(u) = 0 THEN ParseError
             ELSE ParseGroups(SubSeq(rest, i + 1, Len(rest)),
                              d + LeadVal(s, n) * UnitMap(u))

\* time.ParseDuration: "0" is the zero duration, "" is an error
time_ParseDuration(s) ==
    IF s = <<"0">> THEN [ok |-> TRUE, d |-> 0]
    ELSE IF s = <<>> THEN ParseError
    ELSE ParseGroups(s, 0)

\* the defaults of lines 723-725
defaultConnectTimeout == 2 * UnitMap(<<"s">>)
defaultGracePeriod == 12 * UnitMap(<<"s">>)
defaultShutdownTimeout == 5 * UnitMap(<<"s">>)

\* mutant: the parse error is dropped and the parsed (zero) value returned
parseDurationOrDefault_unchecked(e, defaultValue) ==
    IF Getenv(e) # <<>> THEN time_ParseDuration(Getenv(e)).d ELSE defaultValue

\* parseDurationOrDefault: the parsed value of a non-empty variable that
\* parses; else (after a warning when it does not parse) the default
parseDurationOrDefault(e, defaultValue) ==
    IF Getenv(e) # <<>>
    THEN IF time_ParseDuration(Getenv(e)).ok
         THEN time_ParseDuration(Getenv(e)).d
         ELSE defaultValue
    ELSE defaultValue

\* loadConfiguration, lines 737-739: one duration field is read; the
\* environment variable is whatever the environment holds
loadDuration(n, key, field, defaultValue) ==
    /\ cfgpc = n
    /\ \E e \in EnvVars :
         /\ cfgEnv' = e
         /\ config' = [config EXCEPT ![field] = parseDurationOrDefault(e, defaultValue)]
    /\ cfgKey' = key
    /\ cfgpc' = n + 1
    /\ UNCHANGED cfgRest

loadConfiguration_ConnectTimeout ==
    loadDuration(0, "CONNECT_TIMEOUT", "ConnectTimeout", defaultConnectTimeout)

loadConfiguration_GracePeriod ==
    loadDuration(1, "GRACE_PERIOD", "GracePeriod", defaultGracePeriod)

loadConfiguration_ShutdownTimeout ==
    loadDuration(2, "SHUTDOWN_TIMEOUT", "ShutdownTimeout", defaultShutdownTimeout)

CfgNext ==
    \/ loadConfiguration_ConnectTimeout
    \/ loadConfiguration_GracePeriod
    \/ loadConfiguration_ShutdownTimeout

SpecCfg == InitServing /\ [][CfgNext]_vars

\* -------------------------------------------------------- health handler
\* the values a client puts in X-Forwarded-For, X-Real-IP and
\* CF-Connecting-IP ("": the header is absent)
XFFValues == {"", "10.0.0.2"}
XRealValues == {"", "10.0.0.1"}
CFValues == {"", "10.0.0.2"}

Requests_ == [remote : RemoteAddrs, xff : XFFValues, xreal : XRealValues,
              cf : CFValues, path : Paths]

\* net.SplitHostPort(r.RemoteAddr): the host part; getClientIP falls back
\* to the whole address when it does not split
SplitHost(addr) ==
    CASE addr = "10.0.0.1:4000" -> "10.0.0.1"
      [] addr = "10.0.0.2:4000" -> "10.0.0.2"
      [] OTHER -> addr

\* getClientIP: the first non-empty of the three headers, else the host of
\* the remote address
getClientIP(r) ==
    IF r.xff # "" THEN r.xff
    ELSE IF r.xreal # "" THEN r.xreal
    ELSE IF r.cf # "" THEN r.cf
    ELSE SplitHost(r.remote)

\* w.Header().Set(name, value)
HeaderSet(h, name, value) ==
    [x \in DOMAIN h \cup {name} |-> IF x = name THEN value ELSE h[x]]

\* mutant: the Content-Security-Policy line is missing
SecurityHeaders_noCSP ==
    [x \in {"X-Content-Type-Options", "X-Frame-Options", "X-XSS-Protection",
            "Referrer-Policy"} |->
        CASE x = "X-Content-Type-Options" -> "nosniff"
          [] x = "X-Frame-Options" -> "DENY"
          [] x = "X-XSS-Protection" -> "1; mode=block"
          [] x = "Referrer-Policy" -> "strict-origin-when-cross-origin"]

\* ServeHTTP, lines 1011-1015: the headers set before anything else
SecurityHeaders ==
    [x \in {"X-Content-Type-Options", "X-Frame-Options", "X-XSS-Protection",
            "Referrer-Policy", "Content-Security-Policy"} |->
        CASE x = "X-Content-Type-Options" -> "nosniff"
          [] x = "X-Frame-Options" -> "DENY"
          [] x = "X-XSS-Protection" -> "1; mode=block"
          [] x = "Referrer-Policy" -> "strict-origin-when-cross-origin"
          [] x = "Content-Security-Policy" -> "default-src 'none'"]

\* http.Error(w, msg, code): plain text, the status, the message; the
\* headers already set stay
httpError(h, msg, code) ==
    [status |-> code,
     hdrs |-> HeaderSet(HeaderSet(h, "Content-Type", "text/plain; charset=utf-8"),
                        "X-Content-Type-Options", "nosniff"),
     text |-> msg,
     json |-> <<>>]

\* http.NotFound(w, r)
httpNotFound(h) == httpError(h, "404 page not found", 404)

\* writeResponse: the JSON encoding of the APIResponse
writeResponse(h, code, response) ==
    [status |-> code,
     hdrs |-> HeaderSet(h, "Content-Type", "application/json"),
     text |-> "",
     json |-> <<response>>]

\* mutant: the probe's result is ignored
HealthChecker_Check_ignored(dial) == "nil"

\* HealthChecker.Check: Dial with the connect timeout; a refused or
\* timed-out dial is the error; the connection made is closed at once
\* (closing the connection just made returns nil)
HealthChecker_Check(dial) == IF dial = "connected" THEN "nil" ELSE "err"

\* mutant: the path is tested before the rate limit
Response_pathFirst(r, ok, dial, t) ==
    IF r.path # "/" THEN httpNotFound(SecurityHeaders)
    ELSE IF ~ok THEN httpError(SecurityHeaders, "rate limit exceeded", 429)
    ELSE IF HealthChecker_Check(dial) # "nil"
    THEN httpError(SecurityHeaders, "xray-api-unreachable", 503)
    ELSE writeResponse(SecurityHeaders, 200,
             [success |-> TRUE, message |-> "ok",
              data |-> [status |-> "healthy", timestamp |-> t]])

\* ServeHTTP after the headers, lines 1017-1041
Response(r, ok, dial, t) ==
    IF ~ok THEN httpError(SecurityHeaders, "rate limit exceeded", 429)
    ELSE IF r.path # "/" THEN httpNotFound(SecurityHeaders)
    ELSE IF HealthChecker_Check(dial) # "nil"
    THEN httpError(SecurityHeaders, "xray-api-unreachable", 503)
    ELSE writeResponse(SecurityHeaders, 200,
             [success |-> TRUE, message |-> "ok",
              data |-> [status |-> "healthy", timestamp |-> t]])

\* RateLimiter.Allow as the handler sees it, one step under the mutex:
\* prune, test, append
RateLimiter_Allow(ip, ok) ==
    LET valid == IF ip \in DOMAIN requests
                 THEN Pruned(requests[ip], clock) ELSE <<>>
    IN  /\ ok = ~LimitExceeded(Len(valid))
        /\ IF ok THEN RequestsSet(ip, Append(valid, clock))
           ELSE IF ip \in DOMAIN requests THEN RequestsSet(ip, valid)
           ELSE UNCHANGED requests
        /\ completed' = [completed EXCEPT ![ip][clock] = @ + 1]
        /\ admitted' = IF ok THEN [admitted EXCEPT ![ip][clock] = @ + 1]
                       ELSE admitted

\* HealthHandler.ServeHTTP for one request; the probe runs only for an
\* admitted request to "/"
ServeHTTP ==
    /\ httpCalls < MaxRequests
    /\ httpCalls' = httpCalls + 1
    /\ \E r \in Requests_, ok \in BOOLEAN, dial \in DialOutcomes \cup {"none"} :
         /\ RateLimiter_Allow(getClientIP(r), ok)
         /\ (dial # "none") <=> (ok /\ r.path = "/")
         /\ hreq' = r
         /\ hallow' = ok
         /\ hdial' = dial
         /\ hnow' = clock
         /\ hresp' = Response(r, ok, dial, clock)
    /\ UNCHANGED clock
    /\ UNCHANGED httpRest

HTTPNext ==
    \/ ServeHTTP
    \/ RLTick

SpecHTTP == InitServing /\ [][HTTPNext]_vars

\* ================================================================ claims
\* Helpers over the history of the main goroutine.
Count(e) == Cardinality({i \in DOMAIN log : log[i] = e})

Has(e) == Count(e) > 0

\* position of the first occurrence of e in the history (0 when absent)
First(e) == IF Has(e) THEN CHOOSE i \in DOMAIN log :
                               /\ log[i] = e
                               /\ \A j \in 1..(i - 1) : log[j] # e
            ELSE 0

\* the events by which the event loop dequeues something
Dequeues == {"deq_hup", "deq_term", "deq_exit_nil", "deq_exit_err"}

\* the events by which a terminal handler starts its shutdown steps: the
\* signal reached the child, or the exit event entered handleProcessExit
TerminalStarts == {"fwd_ok", "deq_exit_nil", "deq_exit_err"}

\* the supervisor was ended by one of the two handlers of the event loop
ExitedByHandler == exited /\ exitBy \in {"handleSignal", "handleProcessExit"}

\* the listening socket is open: the process is alive and serving
ListenerOpen == ~exited /\ srv = "listening"

C2_BoundedTermination ==
    termAt # -1 =>
      /\ now <= termAt + GracePeriod + ShutdownTimeout
      /\ ~exited =>
           \/ ENABLED Urgent
           \/ /\ pc = "gs_select"
              /\ now < gsDeadline
              /\ gsDeadline <= termAt + GracePeriod
           \/ /\ pc \in {"hs_sd_wait", "hpe_sd_wait"}
              /\ now < sdDeadline
              /\ sdDeadline <= termAt + GracePeriod + ShutdownTimeout

\* the worst case: the child never exits and is killed when the grace
\* period expires, the server shutdown runs into its deadline, and the
\* supervisor exits exactly GracePeriod + ShutdownTimeout after the signal
C2_Witness ==
    /\ exited /\ exitBy = "handleSignal"
    /\ Has("kill") /\ childStatus = "killed"
    /\ sdErr = "deadline"
    /\ now = termAt + GracePeriod + ShutdownTimeout

\* ---------------------------------------------------------------- C3
\* C3: on the termination-signal path (the event loop dequeued SIGINT or
\* SIGTERM and a handler ended the supervisor) the four steps occur in this
\* order and none is skipped: the signal is forwarded to the child, the
\* child has exited or has been killed when GracefulShutdown returns, the
\* HTTP server is shut down, the supervisor exits; and the server shutdown
\* never begins while the child is running.
C3_StrictOrder ==
    /\ Has("sd_begin") => child # "running"
    /\ (ExitedByHandler /\ Has("deq_term")) =>
         /\ Has("fwd_ok") /\ Has("gs_ret") /\ Has("sd_begin") /\ Has("sd_end")
         /\ First("deq_term") < First("fwd_ok")
         /\ First("fwd_ok") < First("gs_ret")
         /\ First("gs_ret") < First("sd_begin")
         /\ First("sd_begin") < First("sd_end")
         /\ First("sd_end") < First("exit")

\* ---------------------------------------------------------------- C4
\* number of calls recorded in h for key k with a timestamp in lo..hi
RECURSIVE CallsIn(_, _, _, _)
CallsIn(h, k, lo, hi) ==
    IF hi < lo \/ hi < 0 THEN 0
    ELSE (IF hi <= RLMaxTime THEN h[k][hi] ELSE 0) + CallsIn(h, k, lo, hi - 1)

\* the timestamps at which a call for k has returned
CallTimes(k) == {t \in 0..RLMaxTime : completed[k][t] > 0}

\* the timestamp of the first call for k (its history was empty then)
FirstCall(k) == CHOOSE t \in CallTimes(k) : \A u \in CallTimes(k) : t <= u

\* C4: for every key k and every instant t, at most RLLimit calls of Allow
\* for k returned true with a timestamp in the trailing window (t -
\* RLWindow, t], whatever the interleaving of the concurrent callers; and
\* when RLLimit or more calls for k were made inside the one window that
\* starts at the first call for k (empty history), exactly RLLimit of them
\* returned true.
C4_AtMostNPerWindow ==
    \A k \in Keys :
      /\ \A t \in 0..RLMaxTime :
           CallsIn(admitted, k, t - RLWindow + 1, t) <= RLLimit
      /\ CallTimes(k) # {} =>
           LET f == FirstCall(k) IN
             CallsIn(completed, k, f, f + RLWindow - 1) >= RLLimit =>
               CallsIn(admitted, k, f, f + RLWindow - 1) = RLLimit

\* more than RLLimit calls for one key returned inside one window, one of
\* them rejected, while one caller holds the mutex and another waits
\* for it with the same key
C4_Witness ==
    \E k \in Keys :
      /\ CallTimes(k) # {}
      /\ CallsIn(completed, k, FirstCall(k), FirstCall(k) + RLWindow - 1) > RLLimit
      /\ CallsIn(admitted, k, FirstCall(k), FirstCall(k) + RLWindow - 1) = RLLimit
      /\ \E w1, w2 \in Callers :
           /\ w1 # w2 /\ mutex = w1 /\ rlpc[w2] = "lock"
           /\ rlKey[w1] = k /\ rlKey[w2] = k

\* ---------------------------------------------------------------- C5
\* C5: whenever the event loop has dequeued a termination signal and a
\* handler then ends the supervisor, the exit code is 0, whatever the
\* child's outcome and whether or not forwarding the signal failed.
C5_SignalExitCodeZero ==
    (ExitedByHandler /\ Has("deq_term")) => exitCode = 0

\* ---------------------------------------------------------------- C6
\* C6: when the child-exit event with an error outcome is handled, the
\* supervisor first shuts the HTTP server down and only then exits with
\* code 1.
C6_ErrorExitShutsServerDown ==
    (exited /\ Has("deq_exit_err")) =>
      /\ exitCode = 1
      /\ Has("sd_begin") /\ Has("sd_end")
      /\ First("deq_exit_err") < First("sd_begin")
      /\ First("sd_end") < First("exit")

\* ---------------------------------------------------------------- C7
\* C7: when the child-exit event with a clean (nil) outcome is handled,
\* handleProcessExit calls ServerManager.Shutdown with a deadline of
\* ShutdownTimeout, waits for it to return and then exits with code 0,
\* also when Shutdown returned an error; nothing else ends the supervisor
\* on this path except the fatal exit of the listener goroutine.
C7_CleanExitShutsServerDown ==
    Has("deq_exit_nil") =>
      /\ pc = "hpe_sd_wait" => (now <= sdDeadline /\ sdDeadline <= now + ShutdownTimeout)
      /\ pc = "hpe_exit" => (Has("sd_begin") /\ Has("sd_end") /\ srv = "closed")
      /\ (exited /\ exitBy # "listenerFatal") =>
           /\ exitBy = "handleProcessExit"
           /\ exitCode = 0
           /\ srv = "closed"
           /\ Count("sd_begin") = 1 /\ Count("sd_end") = 1
           /\ First("deq_exit_nil") < First("sd_begin")
           /\ First("sd_begin") < First("sd_end")
           /\ First("sd_end") < First("exit")

\* the clean exit event was handled, Shutdown returned an error and the
\* supervisor exited with code 0
C7_Witness ==
    /\ exited /\ exitBy = "handleProcessExit"
    /\ Has("deq_exit_nil")
    /\ sdErr \in {"err", "deadline"}
    /\ exitCode = 0

\* ---------------------------------------------------------------- C8
\* C8: if forwarding a termination signal to the child fails, the handling
\* of that signal still proceeds to GracefulShutdown and to the server
\* shutdown: the handler does not go back to the event loop, and a
\* supervisor that exits after a failed forward has run both.
C8_ForwardFailureProceeds ==
    Has("fwd_fail") =>
      /\ pc # "select"
      /\ exited => (Has("gs_ret") /\ Has("sd_begin"))

\* ---------------------------------------------------------------- C9
\* C9: if a termination signal was delivered to the supervisor at any
\* point after its launch, then in the state in which the supervisor has
\* terminated the child is not running and the listener is closed.
C9_TerminatedLeavesNothing ==
    (exited /\ termSent) => (child # "running" /\ ~ListenerOpen)

\* --------------------------------------------------------------- C10
\* C10: in every state in which the control plane is gone (the server has
\* been shut down or has failed fatally, or the supervisor has terminated)
\* the child is not running.
C10_NoOrphan ==
    (srv \in {"closed", "failed"} \/ exited) => child # "running"

\* C11: GracefulShutdown never blocks longer than the grace period counted
\* from the forwarding of the termination signal; when the grace period has
\* elapsed with the child still running, the only way on is the timer case,
\* which kills the child and returns (unless the supervisor has been ended
\* meanwhile by the listener's fatal error): GracefulShutdown has always
\* returned by the deadline, with the child no longer running.
C11_KillAfterGrace ==
    /\ pc = "gs_select" =>
          /\ gsDeadline - GracePeriod <= now /\ now <= gsDeadline
          /\ (now = gsDeadline /\ child = "running") => gsDone = <<>>
          /\ (now = gsDeadline /\ ~exited) => ENABLED GracefulShutdown_timer
    /\ pc = "hs_shutdown" =>
          /\ gsDeadline - GracePeriod <= now /\ now <= gsDeadline
          /\ child # "running"
          /\ gsRet # "none"
    /\ Has("kill") => (child # "running" /\ First("kill") > First("fwd_ok"))

\* C11 witness: the grace period elapsed with the child running, and
\* GracefulShutdown has killed it and returned at the deadline.
C11_Witness ==
    /\ pc = "hs_shutdown" /\ Has("kill")
    /\ childStatus = "killed"
    /\ now = gsDeadline
    /\ gsRet = "nil"

\* C12: Kill on a child that had already exited (the kill did not end it:
\* its exit status is not the one of a kill) changes nothing and returns no
\* error of its own: it returns nil or the exit outcome recorded earlier.
C12_KillIdempotent ==
    (Has("kill") /\ childStatus # "killed") =>
        gsRet \in {"nil", WaitErr(childStatus)}

\* C13: while the binary is missing, the server is never started and no
\* child is launched, the supervisor does not get past the validation,
\* which is ready to end it, and once ended its exit code is non-zero; a
\* supervisor ended by the validation never has a started server.
C13_MissingBinaryIsFatal ==
    /\ ~binExists =>
          /\ pc = "validate"
          /\ srv = "notstarted" /\ child = "notstarted"
          /\ exited => exitCode # 0
          /\ ~exited => ENABLED main_validatePrerequisites
    /\ exitBy = "validatePrerequisites" =>
          (~binExists /\ exited /\ srv = "notstarted" /\ child = "notstarted")

\* C13 witness: the binary is missing and the validation ended the
\* supervisor with code 1.
C13_Witness ==
    /\ ~binExists /\ exited
    /\ exitBy = "validatePrerequisites" /\ exitCode = 1

\* C17: the step in which the event loop takes a SIGHUP off the channel
\* changes nothing but the channel and the log line: the loop stays at its
\* select, the child (not signalled, not killed), the server, the exit
\* state, both Wait goroutines, the timers and the time are as before, so
\* what follows is handled from the state the SIGHUP found.
C17_ReloadChangesNothing ==
    [][(/\ ~exited /\ pc = "select"
        /\ sigCh # <<>> /\ Head(sigCh) = "SIGHUP"
        /\ sigCh' = Tail(sigCh))
       => (/\ log' = Append(log, "deq_hup")
           /\ UNCHANGED <<pc, exitV, childV, srv, cur, bgV, gsV, sdV, now,
                          termAt, sigSent, termSent, lnErr, gsRet>>)]_vars

\* C17 witness: a SIGHUP has been handled and the supervisor is serving
\* as before, the child running and the server listening.
C17_Witness ==
    /\ Has("deq_hup") /\ pc = "select" /\ ~exited
    /\ child = "running" /\ srv = "listening"
    /\ ~Has("fwd_ok") /\ ~Has("kill") /\ ~Has("sd_begin")

\* C18: a ListenAndServe error other than the one of an intentional
\* shutdown ends the supervisor with a non-zero code; the ErrServerClosed
\* that follows ServerManager.Shutdown is never fatal, and a supervisor that
\* ends after it began the shutdown ends with the handler's code 0.
C18_ListenerFailureIsFatal ==
    /\ srv = "failed" <=> lnErr = "other"
    /\ lnErr = "other" =>
          (exited /\ exitCode # 0 /\ exitBy = "listenerFatal")
    /\ lnErr = "ErrServerClosed" =>
          (Has("sd_begin") /\ exitBy # "listenerFatal")
    /\ (Has("sd_begin") /\ exited) =>
          (exitBy \in {"handleSignal", "handleProcessExit"} /\ exitCode = 0)

\* C18 witness: the listener returned because of the shutdown and the
\* supervisor ended with the handler's code 0.
C18_Witness ==
    /\ lnErr = "ErrServerClosed" /\ srv = "closed"
    /\ exited /\ exitCode = 0

\* C20: Wait on the child is called at most once, by runEventLoop's
\* goroutine: GracefulShutdown's goroutine never calls it.
C20_WaitOnce ==
    /\ gsWait = "none"
    /\ ~(bgWait # "none" /\ gsWait # "none")

\* the number the last request has among the requests of its client key
\* made since the key's first request
LastRank ==
    CallsIn(completed, getClientIP(hreq), FirstCall(getClientIP(hreq)), hnow)

\* the last request falls into the window that began with its key's first
\* request (whose history was empty)
LastInFirstWindow ==
    httpCalls > 0 /\ hnow < FirstCall(getClientIP(hreq)) + RLWindow

HasHeader(name, value) ==
    name \in DOMAIN hresp.hdrs /\ hresp.hdrs[name] = value

PlainText(msg) ==
    /\ HasHeader("Content-Type", "text/plain; charset=utf-8")
    /\ hresp.text = msg /\ hresp.json = <<>>

\* C14: of the requests one client key makes inside the window begun by
\* its first request, the first RLLimit pass the rate limiter (their
\* answer is not 429) and every later one is answered 429 with the
\* plain-text body; a 429 is the answer exactly when Allow refused.
C14_OverLimitIs429 ==
    /\ httpCalls > 0 => (hresp.status = 429 <=> ~hallow)
    /\ LastInFirstWindow =>
          /\ LastRank <= RLLimit => (hallow /\ hresp.status # 429)
          /\ LastRank > RLLimit =>
                (~hallow /\ hresp.status = 429 /\ PlainText("rate limit exceeded"))

\* C14 witness: request number RLLimit + 1 of a key inside its first
\* window, answered 429.
C14_Witness ==
    /\ LastInFirstWindow /\ LastRank = RLLimit + 1
    /\ hresp.status = 429 /\ PlainText("rate limit exceeded")

C16_HardeningHeaders ==
    httpCalls > 0 =>
        /\ hresp.status \in {200, 404, 429, 503}
        /\ HasHeader("X-Content-Type-Options", "nosniff")
        /\ HasHeader("X-Frame-Options", "DENY")
        /\ HasHeader("Referrer-Policy", "strict-origin-when-cross-origin")
        /\ HasHeader("Content-Security-Policy", "default-src 'none'")

\* C16 witness: a 404 for a non-root path, carrying the headers.
C16_Witness ==
    /\ httpCalls > 0 /\ hallow /\ hreq.path # "/"
    /\ hresp.status = 404
    /\ HasHeader("Content-Security-Policy", "default-src 'none'")

\* the setting read last: its field of the Configuration and its default
LastField ==
    CASE cfgKey = "CONNECT_TIMEOUT" -> config.ConnectTimeout
      [] cfgKey = "GRACE_PERIOD" -> config.GracePeriod
      [] cfgKey = "SHUTDOWN_TIMEOUT" -> config.ShutdownTimeout

LastDefault ==
    CASE cfgKey = "CONNECT_TIMEOUT" -> defaultConnectTimeout
      [] cfgKey = "GRACE_PERIOD" -> defaultGracePeriod
      [] cfgKey = "SHUTDOWN_TIMEOUT" -> defaultShutdownTimeout

\* C19: each duration setting gets the default (2 s, 12 s, 5 s) when its
\* variable is unset, empty or does not parse, and the parsed value when it
\* parses ("1s" is 1000 ms, "1m" 60000, "1ms" 1, "11s" 11000, "0" 0, while
\* "1", "s", "1ss" and "1s1" do not parse); loadConfiguration goes on to
\* the next setting whatever the value was.
C19_DurationOrDefault ==
    /\ cfgpc \in 0..3
    /\ cfgpc < 3 => ENABLED CfgNext
    /\ cfgpc > 0 =>
          /\ ~cfgEnv.set => LastField = LastDefault
          /\ cfgEnv.val = <<>> => LastField = LastDefault
          /\ (cfgEnv.val # <<>> /\ ~time_ParseDuration(cfgEnv.val).ok) =>
                LastField = LastDefault
          /\ time_ParseDuration(cfgEnv.val).ok =>
                LastField = time_ParseDuration(cfgEnv.val).d
          /\ cfgEnv.val = <<"1", "s">> => LastField = 1000
          /\ cfgEnv.val = <<"1", "m">> => LastField = 60000
          /\ cfgEnv.val = <<"1", "m", "s">> => LastField = 1
          /\ cfgEnv.val = <<"1", "1", "s">> => LastField = 11000
          /\ cfgEnv.val = <<"0">> => LastField = 0
          /\ cfgEnv.val \in {<<"1">>, <<"s">>, <<"1", "s", "s">>, <<"1", "s", "1">>} =>
                LastField = LastDefault

\* C19 witness: all three settings are loaded, one from a value that
\* parses, one from an unset variable or an empty value, and the last from
\* a malformed value, which gave the default.
C19_Witness ==
    /\ cfgpc = 3
    /\ config.ConnectTimeout = 1000
    /\ config.GracePeriod = defaultGracePeriod
    /\ cfgEnv.val = <<"1", "s", "s">>
    /\ config.ShutdownTimeout = defaultShutdownTimeout

\* the tasks that have an operation on the child-process handle in
\* progress: a Wait that has not returned, the Signal of handleSignal
WaitInProgress(st) == IF st = "blocked" THEN 1 ELSE 0

OpsInProgress ==
    WaitInProgress(bgWait) + WaitInProgress(gsWait)
        + (IF pc = "hs_forward" /\ ~exited THEN 1 ELSE 0)

\* C21: at most one task has a Wait, a Signal or a Kill on the child in
\* progress at any time.
C21_HandleSerialized == OpsInProgress <= 1

\* the call of GracefulShutdown has returned
GracefulShutdownReturned == Has("gs_ret")

\* the call received the child's exit from its done channel: its Wait
\* goroutine has sent and the channel is empty again
ExitReceived == gsWait = "finished" /\ gsDone = <<>>

\* C22: GracefulShutdown returns once, with one outcome, and kills at most
\* once; it kills only on the timer case, that is at or after the deadline
\* and without having received the exit from its done channel, and a call
\* that received the exit has not killed.
C22_OneOutcomeOneKill ==
    /\ Count("gs_ret") <= 1 /\ Count("kill") <= 1
    /\ GracefulShutdownReturned <=> gsRet # "none"
    /\ Has("kill") =>
          /\ GracefulShutdownReturned /\ ~ExitReceived
          /\ now >= gsDeadline
          /\ First("kill") + 1 = First("gs_ret")
    /\ (GracefulShutdownReturned /\ ExitReceived) => ~Has("kill")
    /\ (pc = "hs_shutdown" /\ Has("kill")) => now = gsDeadline

\* C22 witness: the child's exit won the race: the call received it and
\* returned without a kill.
C22_Witness ==
    /\ GracefulShutdownReturned /\ ExitReceived
    /\ ~Has("kill") /\ gsRet = "nil" /\ now < gsDeadline

\* C23: when GracefulShutdown has returned because the child's exit won,
\* its grace timer is no longer pending; when it has returned because the
\* timer won, its Wait goroutine is not stuck: while it is still in Wait the
\* child has ended, so the Wait can return.
C23_LoserCleanedUp ==
    /\ (GracefulShutdownReturned /\ ~Has("kill")) => ~GraceTimerPending
    /\ (GracefulShutdownReturned /\ Has("kill") /\ gsWait = "blocked" /\ ~exited)
          => ENABLED gsWait_return

\* C24: a GracefulShutdown that returned on the child's exit returns the
\* child's own exit outcome; one that returned after killing the child
\* returns a forced-termination outcome, which is not the nil of a clean
\* exit.
C24_OutcomeReported ==
    GracefulShutdownReturned =>
        /\ ~Has("kill") => gsRet = WaitErr(childStatus)
        /\ (Has("kill") /\ childStatus = "killed") => gsRet \notin {"none", "nil"}

\* C25: pm.Signal succeeds exactly when the child is still running at the
\* call: a call that found the child exited, reaped or not, failed.  (A
\* successful forward is the last call of pm.Signal in a run.)
C25_SignalFailsOnExited ==
    sigChild # "none" => (Has("fwd_ok") <=> sigChild = "running")

\* C26: once the event loop has taken the child's exit, no Signal is
\* attempted and no Kill is issued until the supervisor ends: nothing of
\* the signal path follows the exit event in the history.
C26_NoSignalAfterExitEvent ==
    \A i \in DOMAIN log :
        log[i] \in {"deq_exit_nil", "deq_exit_err"} =>
            \A j \in DOMAIN log :
                j > i => log[j] \notin {"deq_term", "fwd_ok", "fwd_fail",
                                        "kill", "gs_ret"}

\* C26 witness: a run that ended on the child-exit path, the server shut
\* down, the child reaped, and no kill in it.
C26_Witness ==
    /\ exited /\ exitBy = "handleProcessExit" /\ exitCode = 0
    /\ Has("deq_exit_nil") /\ Has("sd_end")
    /\ child = "reaped" /\ ~Has("kill")

\* C27: the step in which a call of Allow tests the limit: with RLLimit or
\* more timestamps in the (pruned) history of its key the call returns
\* false and the table and the count of admitted calls are as before; with
\* fewer it goes on to record.
C27_RejectRecordsNothing ==
    [][\A w \in Callers :
          (rlpc[w] = "check" /\ rlpc'[w] # "check") =>
              IF Len(Requests(rlKey[w])) >= RLLimit
              THEN /\ rlpc'[w] = "idle"
                   /\ requests' = requests
                   /\ admitted' = admitted
                   /\ completed'[rlKey[w]][rlNow[w]] =
                          completed[rlKey[w]][rlNow[w]] + 1
              ELSE rlpc'[w] = "append" /\ completed' = completed]_vars

\* C27 witness: a call has been rejected (it returned without being
\* admitted) and its key's history holds the RLLimit admitted timestamps.
C27_Witness ==
    \E k \in Keys, t \in 0..RLMaxTime :
        /\ completed[k][t] > admitted[k][t]
        /\ Len(Requests(k)) = RLLimit
        /\ \A w \in Callers : rlpc[w] = "idle"

\* how many times the timestamp t is in the history of key k
InTable(k, t) ==
    Cardinality({i \in DOMAIN Requests(k) : Requests(k)[i] = t})

\* C28: right after the pruning of a call at time now for key k, the
\* history of k holds every timestamp t >= now - RLWindow that was recorded
\* for k (the one equal to the cutoff included) and none older.
C28_KeepsFromCutoff ==
    \A w \in Callers :
        rlpc[w] = "check" =>
            \A t \in 0..RLMaxTime :
                IF t >= rlNow[w] - RLWindow
                THEN InTable(rlKey[w], t) = admitted[rlKey[w]][t]
                ELSE InTable(rlKey[w], t) = 0

\* C29: no step removes a key from the table; a step changes or creates
\* the history of a key only when it is a step of a call of Allow for that
\* key; the passing of time changes nothing in the table.
C29_OnlyOwnKey ==
    [][/\ DOMAIN requests \subseteq DOMAIN requests'
       /\ \A k \in DOMAIN requests' :
             (k \notin DOMAIN requests \/ requests'[k] # requests[k]) =>
                 \E w \in Callers : rlKey[w] = k /\ rlpc'[w] # rlpc[w]
       /\ clock' # clock => requests' = requests]_vars

\* C29 witness: a timestamp of one key has expired and is still in the
\* table, while a call for another key has been recorded at the present
\* time.
C29_Witness ==
    \E k \in DOMAIN requests, k2 \in DOMAIN requests :
        /\ k # k2
        /\ \E i \in DOMAIN requests[k] : requests[k][i] + RLWindow <= clock
        /\ \E j \in DOMAIN requests[k2] : requests[k2][j] = clock

\* C30: the key under which a request is counted is the host of its
\* remote address, whatever its X-Forwarded-For, X-Real-IP and
\* CF-Connecting-IP headers; so a request is refused exactly when the
\* history of its source address is full.
C30_KeyIsSourceAddress ==
    httpCalls > 0 =>
        /\ getClientIP(hreq) = SplitHost(hreq.remote)
        /\ hallow => InTable(SplitHost(hreq.remote), hnow) > 0

\* the stage of the child's life: not started, running, ended
ChildStage(c) ==
    CASE c = "notstarted" -> 0
      [] c = "running" -> 1
      [] OTHER -> 2

\* no Wait, Signal or Kill has been invoked
NoChildOperation ==
    /\ bgWait = "none" /\ gsWait = "none"
    /\ sigChild = "none" /\ pc # "hs_forward"
    /\ ~Has("kill")

\* C31: in every step the child's stage does not go back (not started,
\* running, ended) and main does not come back to the call of Start; Start
\* is called on a child not started yet; and while the child is not
\* started no Wait, Signal or Kill has been invoked.
C31_ForwardOnly ==
    [][/\ ChildStage(child') >= ChildStage(child)
       /\ pc' = "startProcess" => pc \in {"startServer", "startProcess"}
       /\ pc = "startProcess" => child = "notstarted"
       /\ child = "notstarted" => NoChildOperation
       /\ child' = "notstarted" => NoChildOperation']_vars

\* C31 witness: the child went through all the stages: started, signalled,
\* killed at the end of the grace period and reaped.
C31_Witness ==
    /\ child = "reaped" /\ childStatus = "killed"
    /\ sigChild = "running" /\ Has("kill")
    /\ bgWait # "none"

\* the child's exit with an error is in runEventLoop's done channel and
\* the main goroutine is at the select or in the signal branch before the
\* forward
ErrorExitWaiting ==
    /\ ~exited /\ done = <<"err">>
    /\ pc \in {"select", "hs_forward"}

\* C32: from a state in which the child's error exit is in the done
\* channel, whichever case the select takes (a pending signal or the exit
\* event) the supervisor ends with code 1 or not at all: the signal branch
\* finds the child finished (the forward fails) and returns to the select
\* with the exit event still waiting, and the exit branch ends the
\* supervisor through handleProcessExit.
C32_ErrorExitWins ==
    [][ErrorExitWaiting =>
         /\ exited' => exitCode' = 1
         /\ ~exited' => ErrorExitWaiting'
         /\ (pc = "hs_forward" /\ pc' # pc) =>
               (pc' = "select" /\ log' = Append(log, "fwd_fail"))
         /\ (pc = "select" /\ done' # done) =>
               (exited' /\ exitBy' = "handleProcessExit")]_vars

\* C32 witness: a termination signal was taken first, its forward failed,
\* and the exit event then ended the supervisor with code 1.
C32_Witness ==
    /\ exited /\ exitCode = 1 /\ exitBy = "handleProcessExit"
    /\ Len(log) >= 4
    /\ SubSeq(log, Len(log) - 3, Len(log))
          = <<"deq_term", "fwd_fail", "deq_exit_err", "exit">>

\* C33: a request the rate limiter refuses is answered 429 whatever its
\* path and runs no probe; an admitted request to another path than "/" is
\* answered 404, runs no probe, and its timestamp is recorded in the
\* history of its key (it used one slot of the window); the probe runs
\* only for an admitted request to "/".
C33_LimitThenPathThenProbe ==
    httpCalls > 0 =>
        /\ ~hallow => (hresp.status = 429 /\ hdial = "none")
        /\ (hallow /\ hreq.path # "/") =>
              /\ hresp.status = 404 /\ hdial = "none"
              /\ InTable(getClientIP(hreq), hnow) > 0
              /\ admitted[getClientIP(hreq)][hnow] > 0
        /\ hdial # "none" => (hallow /\ hreq.path = "/")
        /\ hresp.status \in {200, 503} => hdial # "none"

\* C33 witness: requests to another path than "/" have filled the window
\* of their key: the last of them was answered 404 and took the last slot.
C33_Witness ==
    /\ httpCalls > 0 /\ hallow /\ hreq.path # "/"
    /\ hresp.status = 404 /\ hdial = "none"
    /\ Len(Requests(getClientIP(hreq))) = RLLimit
    /\ InTable(getClientIP(hreq), hnow) > 0

\* C34: a request whose key has a full history the oldest timestamp of
\* which is more than RLWindow old is admitted, and so is a request whose
\* key made its last recorded call more than RLWindow ago (its history
\* then starts anew); nothing else than the passing of time is needed.
C34_AdmittedAgain ==
    [][httpCalls' = httpCalls + 1 =>
         \A k \in DOMAIN requests :
             (k = getClientIP(hreq') /\ requests[k] # <<>>) =>
                 /\ (Len(requests[k]) >= RLLimit
                       /\ clock > requests[k][1] + RLWindow) => hallow'
                 /\ clock > requests[k][Len(requests[k])] + RLWindow =>
                       (hallow' /\ requests'[k] = <<clock>>)]_vars

\* C34 witness: a key that had been refused in its first window is
\* admitted later.
C34_Witness ==
    /\ httpCalls > 0 /\ hallow
    /\ hnow > FirstCall(getClientIP(hreq)) + RLWindow
    /\ \E t \in 0..RLMaxTime :
          /\ t < hnow
          /\ completed[getClientIP(hreq)][t] > admitted[getClientIP(hreq)][t]

====
